---- MODULE Spec2Model ----
(***************************************************************************)
(* Swap-execution core of the concentrated-liquidity pool, price-increasing *)
(* (one-for-zero) strategy.                                                 *)
(*                                                                          *)
(* Decimals are fixed-point numbers: a decimal d is held as the integer     *)
(* d * Unit (sdk.Dec) or d * BigUnit (osmomath.BigDec).  One unit of the    *)
(* integer is one ULP of the decimal.                                       *)
(***************************************************************************)
EXTENDS Integers, Sequences, FiniteSets, TLC

(***************************************************************************)
(* Bounds of the model.                                                     *)
(***************************************************************************)
\* number of ULPs in 1.0 of the standard-precision decimal
Unit == 10
\* largest sqrt price of the input grid of the step functions, in ULPs
MaxSqrt == 16
\* largest liquidity of the input grid, in ULPs
MaxLiq == 24
\* largest remaining amount of the input grid, in ULPs
MaxAmt == 12

\* number of ULPs in 1.0 of the high-precision decimal: the high precision
\* has twice the fractional digits of the standard one
BigUnit == Unit * Unit

(***************************************************************************)
(* sdk.Dec arithmetic on non-negative operands.                             *)
(***************************************************************************)
FloorDiv(n, d) == n \div d

CeilDiv(n, d) == (n + d - 1) \div d

\* round half to even, as sdk.Dec's chopPrecisionAndRound
RoundDiv(n, d) ==
  LET q == n \div d
      r == n % d
  IN  IF 2 * r < d THEN q
      ELSE IF 2 * r > d THEN q + 1
      ELSE IF q % 2 = 0 THEN q ELSE q + 1

Mul(a, b) == RoundDiv(a * b, Unit)

MulTruncate(a, b) == FloorDiv(a * b, Unit)

MulRoundUp(a, b) == CeilDiv(a * b, Unit)

QuoTruncate(a, b) == FloorDiv(a * Unit, b)

QuoRoundUp(a, b) == CeilDiv(a * Unit, b)

OneDec == Unit

oneULP == 1

(***************************************************************************)
(* osmomath.BigDec arithmetic and the conversions between the precisions.   *)
(***************************************************************************)
BigDecFromSDKDec(d) == d * (BigUnit \div Unit)

\* BigDec.SDKDec() truncates
SDKDec(b) == FloorDiv(b, BigUnit \div Unit)

BigMulTruncate(a, b) == FloorDiv(a * b, BigUnit)

BigMulRoundUp(a, b) == CeilDiv(a * b, BigUnit)

BigQuoTruncate(a, b) == FloorDiv(a * BigUnit, b)

(***************************************************************************)
(* Price/tick conversion library: the delta formulas and their inverses.    *)
(***************************************************************************)
AbsDiff(a, b) == IF a > b THEN a - b ELSE b - a

\* amount of token one held by liq between two sqrt prices: liq * |a - b|
CalcAmount1Delta(liq, sqrtPriceA, sqrtPriceB, roundUp) ==
  LET diff == AbsDiff(sqrtPriceA, sqrtPriceB)
  IN  IF roundUp THEN MulRoundUp(liq, diff) ELSE MulTruncate(liq, diff)

\* amount of token zero held by liq between two sqrt prices:
\* liq * |a - b| / (a * b)
CalcAmount0Delta(liq, sqrtPriceA, sqrtPriceB, roundUp) ==
  LET diff == AbsDiff(sqrtPriceA, sqrtPriceB)
  IN  IF roundUp
      THEN QuoRoundUp(MulRoundUp(liq, diff), MulTruncate(sqrtPriceA, sqrtPriceB))
      ELSE QuoTruncate(MulTruncate(liq, diff), MulRoundUp(sqrtPriceA, sqrtPriceB))

CalcAmount0DeltaBigDec(liq, sqrtPriceA, sqrtPriceB, roundUp) ==
  LET diff == AbsDiff(sqrtPriceA, sqrtPriceB)
  IN  IF roundUp
      THEN CeilDiv(BigMulRoundUp(liq, diff) * BigUnit, BigMulTruncate(sqrtPriceA, sqrtPriceB))
      ELSE BigQuoTruncate(BigMulTruncate(liq, diff), BigMulRoundUp(sqrtPriceA, sqrtPriceB))

\* sqrtPriceCurrent + amountOneRemainingIn / liquidity, rounded down
GetNextSqrtPriceFromAmount1InRoundingDown(sqrtPriceCurrent, liquidity, amountOneRemainingIn) ==
  sqrtPriceCurrent + QuoTruncate(amountOneRemainingIn, liquidity)

GetNextSqrtPriceFromAmount1InRoundingDownBigDec(sqrtPriceCurrent, liquidity, amountOneRemainingIn) ==
  sqrtPriceCurrent + BigQuoTruncate(amountOneRemainingIn, liquidity)

\* liquidity * sqrtPriceCurrent / (liquidity - amountZeroRemainingOut * sqrtPriceCurrent),
\* rounded up
GetNextSqrtPriceFromAmount0OutRoundingUp(sqrtPriceCurrent, liquidity, amountZeroRemainingOut) ==
  IF amountZeroRemainingOut = 0 THEN sqrtPriceCurrent
  ELSE QuoRoundUp(MulRoundUp(liquidity, sqrtPriceCurrent),
                  liquidity - MulTruncate(amountZeroRemainingOut, sqrtPriceCurrent))

(***************************************************************************)
(* Spread reward (fee) charge of one step.                                  *)
(***************************************************************************)
\* amountIn * spreadFactor / (1 - spreadFactor), rounded up
computeSpreadRewardChargeFromAmountIn(amountIn, spreadFactor) ==
  QuoRoundUp(MulRoundUp(amountIn, spreadFactor), OneDec - spreadFactor)

\* A step that reaches its target is charged on the amount in it consumed; a
\* step that stops inside the bucket consumes the whole remaining amount, so
\* the charge is what is left of it after the amount in.
computeSpreadRewardChargePerSwapStepOutGivenIn(hasReachedTarget, amountIn, amountSpecifiedRemaining, spreadFactor) ==
  IF hasReachedTarget
  THEN computeSpreadRewardChargeFromAmountIn(amountIn, spreadFactor)
  ELSE amountSpecifiedRemaining - amountIn

(***************************************************************************)
(* oneForZeroStrategy                                                       *)
(***************************************************************************)
\* As GetSqrtTargetPrice, but the greater of the two prices is returned.
GetSqrtTargetPrice_Max(sqrtPriceLimit, nextTickSqrtPrice) ==
  IF nextTickSqrtPrice > sqrtPriceLimit THEN nextTickSqrtPrice ELSE sqrtPriceLimit

\* sqrtPriceLimit is the field of the strategy
GetSqrtTargetPrice(sqrtPriceLimit, nextTickSqrtPrice) ==
  IF nextTickSqrtPrice > sqrtPriceLimit THEN sqrtPriceLimit ELSE nextTickSqrtPrice

\* As ComputeSwapWithinBucketOutGivenIn, but the amount in of a step that stops
\* inside the bucket is rounded down.
ComputeSwapWithinBucketOutGivenIn_RoundDown(spreadFactor, sqrtPriceCurrent, sqrtPriceTarget, liquidity, amountOneInRemaining) ==
  LET estimate == CalcAmount1Delta(liquidity, sqrtPriceTarget, sqrtPriceCurrent, TRUE)
      amountOneInRemainingLessSpreadReward == Mul(amountOneInRemaining, OneDec - spreadFactor)
      boundByTarget == amountOneInRemainingLessSpreadReward >= estimate
      sqrtPriceNext ==
        IF boundByTarget THEN sqrtPriceTarget
        ELSE GetNextSqrtPriceFromAmount1InRoundingDown(sqrtPriceCurrent, liquidity, amountOneInRemainingLessSpreadReward)
      hasReachedTarget == boundByTarget
      amountOneIn1 ==
        IF ~hasReachedTarget
        THEN CalcAmount1Delta(liquidity, sqrtPriceNext, sqrtPriceCurrent, FALSE)
        ELSE estimate
      amountZeroOut1 == CalcAmount0Delta(liquidity, sqrtPriceNext, sqrtPriceCurrent, FALSE)
      precisionLoss ==
        /\ ~hasReachedTarget
        /\ sqrtPriceCurrent = sqrtPriceNext
        /\ amountOneIn1 = 0
        /\ amountOneInRemaining # 0
      amountOneIn == IF precisionLoss THEN amountOneInRemaining ELSE amountOneIn1
      liquidityBigDec == BigDecFromSDKDec(liquidity)
      sqrtPriceCurrentBigDec == BigDecFromSDKDec(sqrtPriceCurrent)
      sqrtPriceNextBigDec ==
        GetNextSqrtPriceFromAmount1InRoundingDownBigDec(sqrtPriceCurrentBigDec, liquidityBigDec,
                                                        BigDecFromSDKDec(amountOneIn))
      amountZeroOut ==
        IF precisionLoss
        THEN SDKDec(CalcAmount0DeltaBigDec(liquidityBigDec, sqrtPriceNextBigDec, sqrtPriceCurrentBigDec, FALSE))
        ELSE amountZeroOut1
      spreadRewardChargeTotal ==
        computeSpreadRewardChargePerSwapStepOutGivenIn(hasReachedTarget, amountOneIn, amountOneInRemaining, spreadFactor)
  IN  [sqrtPriceNext |-> sqrtPriceNext,
       amountOneIn |-> amountOneIn,
       amountZeroOut |-> amountZeroOut,
       spreadRewardChargeTotal |-> spreadRewardChargeTotal,
       hasReachedTarget |-> hasReachedTarget,
       precisionLoss |-> precisionLoss]

\* As ComputeSwapWithinBucketOutGivenIn, but the charge is taken from the amount
\* remaining less the spread reward.
ComputeSwapWithinBucketOutGivenIn_FeeOnLessSpread(spreadFactor, sqrtPriceCurrent, sqrtPriceTarget, liquidity, amountOneInRemaining) ==
  LET estimate == CalcAmount1Delta(liquidity, sqrtPriceTarget, sqrtPriceCurrent, TRUE)
      amountOneInRemainingLessSpreadReward == Mul(amountOneInRemaining, OneDec - spreadFactor)
      boundByTarget == amountOneInRemainingLessSpreadReward >= estimate
      sqrtPriceNext ==
        IF boundByTarget THEN sqrtPriceTarget
        ELSE GetNextSqrtPriceFromAmount1InRoundingDown(sqrtPriceCurrent, liquidity, amountOneInRemainingLessSpreadReward)
      hasReachedTarget == boundByTarget
      amountOneIn1 ==
        IF ~hasReachedTarget
        THEN CalcAmount1Delta(liquidity, sqrtPriceNext, sqrtPriceCurrent, TRUE)
        ELSE estimate
      amountZeroOut1 == CalcAmount0Delta(liquidity, sqrtPriceNext, sqrtPriceCurrent, FALSE)
      precisionLoss ==
        /\ ~hasReachedTarget
        /\ sqrtPriceCurrent = sqrtPriceNext
        /\ amountOneIn1 = 0
        /\ amountOneInRemaining # 0
      amountOneIn == IF precisionLoss THEN amountOneInRemaining ELSE amountOneIn1
      liquidityBigDec == BigDecFromSDKDec(liquidity)
      sqrtPriceCurrentBigDec == BigDecFromSDKDec(sqrtPriceCurrent)
      sqrtPriceNextBigDec ==
        GetNextSqrtPriceFromAmount1InRoundingDownBigDec(sqrtPriceCurrentBigDec, liquidityBigDec,
                                                        BigDecFromSDKDec(amountOneIn))
      amountZeroOut ==
        IF precisionLoss
        THEN SDKDec(CalcAmount0DeltaBigDec(liquidityBigDec, sqrtPriceNextBigDec, sqrtPriceCurrentBigDec, FALSE))
        ELSE amountZeroOut1
      spreadRewardChargeTotal ==
        computeSpreadRewardChargePerSwapStepOutGivenIn(hasReachedTarget, amountOneIn,
          amountOneInRemainingLessSpreadReward, spreadFactor)
  IN  [sqrtPriceNext |-> sqrtPriceNext,
       amountOneIn |-> amountOneIn,
       amountZeroOut |-> amountZeroOut,
       spreadRewardChargeTotal |-> spreadRewardChargeTotal,
       hasReachedTarget |-> hasReachedTarget,
       precisionLoss |-> precisionLoss]

\* As ComputeSwapWithinBucketOutGivenIn, but the recovery returns the price it
\* recalculated with the higher precision.
ComputeSwapWithinBucketOutGivenIn_MovePrice(spreadFactor, sqrtPriceCurrent, sqrtPriceTarget, liquidity, amountOneInRemaining) ==
  LET estimate == CalcAmount1Delta(liquidity, sqrtPriceTarget, sqrtPriceCurrent, TRUE)
      amountOneInRemainingLessSpreadReward == Mul(amountOneInRemaining, OneDec - spreadFactor)
      boundByTarget == amountOneInRemainingLessSpreadReward >= estimate
      sqrtPriceNext ==
        IF boundByTarget THEN sqrtPriceTarget
        ELSE GetNextSqrtPriceFromAmount1InRoundingDown(sqrtPriceCurrent, liquidity, amountOneInRemainingLessSpreadReward)
      hasReachedTarget == boundByTarget
      amountOneIn1 ==
        IF ~hasReachedTarget
        THEN CalcAmount1Delta(liquidity, sqrtPriceNext, sqrtPriceCurrent, TRUE)
        ELSE estimate
      amountZeroOut1 == CalcAmount0Delta(liquidity, sqrtPriceNext, sqrtPriceCurrent, FALSE)
      precisionLoss ==
        /\ ~hasReachedTarget
        /\ sqrtPriceCurrent = sqrtPriceNext
        /\ amountOneIn1 = 0
        /\ amountOneInRemaining # 0
      amountOneIn == IF precisionLoss THEN amountOneInRemaining ELSE amountOneIn1
      liquidityBigDec == BigDecFromSDKDec(liquidity)
      sqrtPriceCurrentBigDec == BigDecFromSDKDec(sqrtPriceCurrent)
      sqrtPriceNextBigDec ==
        GetNextSqrtPriceFromAmount1InRoundingDownBigDec(sqrtPriceCurrentBigDec, liquidityBigDec,
                                                        BigDecFromSDKDec(amountOneIn))
      amountZeroOut ==
        IF precisionLoss
        THEN SDKDec(CalcAmount0DeltaBigDec(liquidityBigDec, sqrtPriceNextBigDec, sqrtPriceCurrentBigDec, FALSE))
        ELSE amountZeroOut1
      spreadRewardChargeTotal ==
        computeSpreadRewardChargePerSwapStepOutGivenIn(hasReachedTarget, amountOneIn, amountOneInRemaining, spreadFactor)
  IN  [sqrtPriceNext |-> IF precisionLoss THEN SDKDec(sqrtPriceNextBigDec) ELSE sqrtPriceNext,
       amountOneIn |-> amountOneIn,
       amountZeroOut |-> amountZeroOut,
       spreadRewardChargeTotal |-> spreadRewardChargeTotal,
       hasReachedTarget |-> hasReachedTarget,
       precisionLoss |-> precisionLoss]

\* The step for a given amount of token one in.  hasReachedTarget compares
\* the two sdk.Dec structs with ==, that is, the pointers they hold: it is
\* true exactly when sqrtPriceNext was assigned from sqrtPriceTarget, since
\* GetNextSqrtPriceFromAmount1InRoundingDown returns a fresh decimal.
ComputeSwapWithinBucketOutGivenIn(spreadFactor, sqrtPriceCurrent, sqrtPriceTarget, liquidity, amountOneInRemaining) ==
  LET estimate == CalcAmount1Delta(liquidity, sqrtPriceTarget, sqrtPriceCurrent, TRUE)
      amountOneInRemainingLessSpreadReward == Mul(amountOneInRemaining, OneDec - spreadFactor)
      boundByTarget == amountOneInRemainingLessSpreadReward >= estimate
      sqrtPriceNext ==
        IF boundByTarget THEN sqrtPriceTarget
        ELSE GetNextSqrtPriceFromAmount1InRoundingDown(sqrtPriceCurrent, liquidity, amountOneInRemainingLessSpreadReward)
      hasReachedTarget == boundByTarget
      amountOneIn1 ==
        IF ~hasReachedTarget
        THEN CalcAmount1Delta(liquidity, sqrtPriceNext, sqrtPriceCurrent, TRUE)
        ELSE estimate
      amountZeroOut1 == CalcAmount0Delta(liquidity, sqrtPriceNext, sqrtPriceCurrent, FALSE)
      precisionLoss ==
        /\ ~hasReachedTarget
        /\ sqrtPriceCurrent = sqrtPriceNext
        /\ amountOneIn1 = 0
        /\ amountOneInRemaining # 0
      amountOneIn == IF precisionLoss THEN amountOneInRemaining ELSE amountOneIn1
      liquidityBigDec == BigDecFromSDKDec(liquidity)
      sqrtPriceCurrentBigDec == BigDecFromSDKDec(sqrtPriceCurrent)
      sqrtPriceNextBigDec ==
        GetNextSqrtPriceFromAmount1InRoundingDownBigDec(sqrtPriceCurrentBigDec, liquidityBigDec,
                                                        BigDecFromSDKDec(amountOneIn))
      amountZeroOut ==
        IF precisionLoss
        THEN SDKDec(CalcAmount0DeltaBigDec(liquidityBigDec, sqrtPriceNextBigDec, sqrtPriceCurrentBigDec, FALSE))
        ELSE amountZeroOut1
      spreadRewardChargeTotal ==
        computeSpreadRewardChargePerSwapStepOutGivenIn(hasReachedTarget, amountOneIn, amountOneInRemaining, spreadFactor)
  IN  [sqrtPriceNext |-> sqrtPriceNext,
       amountOneIn |-> amountOneIn,
       amountZeroOut |-> amountZeroOut,
       spreadRewardChargeTotal |-> spreadRewardChargeTotal,
       hasReachedTarget |-> hasReachedTarget,
       precisionLoss |-> precisionLoss]

\* As ComputeSwapWithinBucketInGivenOut, without the recovery from the loss of
\* precision.
ComputeSwapWithinBucketInGivenOut_NoRecovery(spreadFactor, sqrtPriceCurrent, sqrtPriceTarget, liquidity, amountZeroRemainingOut) ==
  LET estimate == CalcAmount0Delta(liquidity, sqrtPriceTarget, sqrtPriceCurrent, FALSE)
      boundByTarget == amountZeroRemainingOut >= estimate
      sqrtPriceNext ==
        IF boundByTarget THEN sqrtPriceTarget
        ELSE GetNextSqrtPriceFromAmount0OutRoundingUp(sqrtPriceCurrent, liquidity, amountZeroRemainingOut)
      hasReachedTarget == boundByTarget
      amountZeroOut1 ==
        IF ~hasReachedTarget
        THEN CalcAmount0Delta(liquidity, sqrtPriceNext, sqrtPriceCurrent, FALSE)
        ELSE estimate
      amountOneIn1 == CalcAmount1Delta(liquidity, sqrtPriceNext, sqrtPriceCurrent, TRUE)
      precisionLoss == FALSE
      amountOneIn ==
        IF precisionLoss
        THEN CalcAmount1Delta(liquidity, sqrtPriceNext + oneULP, sqrtPriceCurrent, TRUE)
        ELSE amountOneIn1
      amountZeroOut == IF precisionLoss THEN amountZeroRemainingOut ELSE amountZeroOut1
      spreadRewardChargeTotal == computeSpreadRewardChargeFromAmountIn(amountOneIn, spreadFactor)
  IN  [sqrtPriceNext |-> sqrtPriceNext,
       amountOneIn |-> amountOneIn,
       amountZeroOut |-> amountZeroOut,
       spreadRewardChargeTotal |-> spreadRewardChargeTotal,
       hasReachedTarget |-> hasReachedTarget,
       precisionLoss |-> precisionLoss]

\* As ComputeSwapWithinBucketInGivenOut, but the recovery is also taken by a
\* step that has reached its target.
ComputeSwapWithinBucketInGivenOut_RecoveryAtTarget(spreadFactor, sqrtPriceCurrent, sqrtPriceTarget, liquidity, amountZeroRemainingOut) ==
  LET estimate == CalcAmount0Delta(liquidity, sqrtPriceTarget, sqrtPriceCurrent, FALSE)
      boundByTarget == amountZeroRemainingOut >= estimate
      sqrtPriceNext ==
        IF boundByTarget THEN sqrtPriceTarget
        ELSE GetNextSqrtPriceFromAmount0OutRoundingUp(sqrtPriceCurrent, liquidity, amountZeroRemainingOut)
      hasReachedTarget == boundByTarget
      amountZeroOut1 ==
        IF ~hasReachedTarget
        THEN CalcAmount0Delta(liquidity, sqrtPriceNext, sqrtPriceCurrent, FALSE)
        ELSE estimate
      amountOneIn1 == CalcAmount1Delta(liquidity, sqrtPriceNext, sqrtPriceCurrent, TRUE)
      precisionLoss ==
        /\ sqrtPriceCurrent = sqrtPriceNext
        /\ amountZeroOut1 = 0
        /\ amountZeroRemainingOut # 0
      amountOneIn ==
        IF precisionLoss
        THEN CalcAmount1Delta(liquidity, sqrtPriceNext + oneULP, sqrtPriceCurrent, TRUE)
        ELSE amountOneIn1
      amountZeroOut == IF precisionLoss THEN amountZeroRemainingOut ELSE amountZeroOut1
      spreadRewardChargeTotal == computeSpreadRewardChargeFromAmountIn(amountOneIn, spreadFactor)
  IN  [sqrtPriceNext |-> sqrtPriceNext,
       amountOneIn |-> amountOneIn,
       amountZeroOut |-> amountZeroOut,
       spreadRewardChargeTotal |-> spreadRewardChargeTotal,
       hasReachedTarget |-> hasReachedTarget,
       precisionLoss |-> precisionLoss]

\* The step for a given amount of token zero out.
ComputeSwapWithinBucketInGivenOut(spreadFactor, sqrtPriceCurrent, sqrtPriceTarget, liquidity, amountZeroRemainingOut) ==
  LET estimate == CalcAmount0Delta(liquidity, sqrtPriceTarget, sqrtPriceCurrent, FALSE)
      boundByTarget == amountZeroRemainingOut >= estimate
      sqrtPriceNext ==
        IF boundByTarget THEN sqrtPriceTarget
        ELSE GetNextSqrtPriceFromAmount0OutRoundingUp(sqrtPriceCurrent, liquidity, amountZeroRemainingOut)
      hasReachedTarget == boundByTarget
      amountZeroOut1 ==
        IF ~hasReachedTarget
        THEN CalcAmount0Delta(liquidity, sqrtPriceNext, sqrtPriceCurrent, FALSE)
        ELSE estimate
      amountOneIn1 == CalcAmount1Delta(liquidity, sqrtPriceNext, sqrtPriceCurrent, TRUE)
      precisionLoss ==
        /\ ~hasReachedTarget
        /\ sqrtPriceCurrent = sqrtPriceNext
        /\ amountZeroOut1 = 0
        /\ amountZeroRemainingOut # 0
      amountOneIn ==
        IF precisionLoss
        THEN CalcAmount1Delta(liquidity, sqrtPriceNext + oneULP, sqrtPriceCurrent, TRUE)
        ELSE amountOneIn1
      amountZeroOut == IF precisionLoss THEN amountZeroRemainingOut ELSE amountZeroOut1
      spreadRewardChargeTotal == computeSpreadRewardChargeFromAmountIn(amountOneIn, spreadFactor)
  IN  [sqrtPriceNext |-> sqrtPriceNext,
       amountOneIn |-> amountOneIn,
       amountZeroOut |-> amountZeroOut,
       spreadRewardChargeTotal |-> spreadRewardChargeTotal,
       hasReachedTarget |-> hasReachedTarget,
       precisionLoss |-> precisionLoss]

(***************************************************************************)
(* Ticks and their sqrt prices.                                             *)
(***************************************************************************)
\* the largest tick index; the smallest is its negation
MaxTick == 2
\* how many positions are created on the pool
MaxPositions == 2
\* how many swaps are called on the pool
MaxSwaps == 2

\* sqrt price distance of two neighbouring ticks, in ULPs: the price of the
\* smallest tick stays positive
TickStep == Unit \div (MaxTick + 1)

MinTick == 0 - MaxTick

Ticks == MinTick..MaxTick

\* monotonically increasing in the tick; 1.0 at tick zero
TickToSqrtPrice(t) == Unit + t * TickStep

MaxSqrtPrice == TickToSqrtPrice(MaxTick)

MinSqrtPrice == TickToSqrtPrice(MinTick)

\* the tick whose bucket holds the price: a price on a tick boundary
\* resolves to that tick
SqrtPriceToTick(p) ==
  IF p < MinSqrtPrice THEN MinTick
  ELSE CHOOSE t \in Ticks :
         /\ TickToSqrtPrice(t) <= p
         /\ \A u \in Ticks : TickToSqrtPrice(u) <= p => u <= t

(***************************************************************************)
(* oneForZeroStrategy: ticks, crossing, price limit.                        *)
(***************************************************************************)
\* A tick key is the sign prefix (0 for a negative tick, 1 otherwise, as the
\* negative prefix sorts before the positive one) followed by the tick index
\* as an unsigned big-endian integer: the index modulo TickKeyModulus.
TickKeyModulus == 2 * (MaxTick + 1)

TickIndexToBytes(tickIndex) ==
  <<IF tickIndex < 0 THEN 0 ELSE 1, tickIndex % TickKeyModulus>>

\* the unsigned integer of a key read as a signed one
KeyToInt(v) == IF 2 * v >= TickKeyModulus THEN v - TickKeyModulus ELSE v

\* err is TRUE for a key of the wrong length and for a key whose sign prefix
\* contradicts its integer
TickIndexFromBytes(bz) ==
  IF Len(bz) # 2 THEN [err |-> TRUE, tick |-> 0]
  ELSE IF bz[1] = 0 /\ KeyToInt(bz[2]) >= 0 THEN [err |-> TRUE, tick |-> 0]
  ELSE IF bz[1] = 1 /\ KeyToInt(bz[2]) < 0 THEN [err |-> TRUE, tick |-> 0]
  ELSE [err |-> FALSE, tick |-> KeyToInt(bz[2])]

\* byte order of two keys
KeyLess(a, b) ==
  \/ a[1] < b[1]
  \/ a[1] = b[1] /\ Len(a) = 1 /\ Len(b) = 2
  \/ a[1] = b[1] /\ Len(a) = 2 /\ Len(b) = 2 /\ a[2] < b[2]

\* the results of a lookup: an iterator that is not valid, an iterator on a
\* key, and the panic after the iterator was closed
InvalidIterator == [valid |-> FALSE, panic |-> FALSE, closed |-> FALSE]

IteratorOn(key) == [valid |-> TRUE, panic |-> FALSE, closed |-> FALSE, key |-> key]

IteratorPanic(key) == [valid |-> FALSE, panic |-> TRUE, closed |-> TRUE, key |-> key]

\* As InitializeNextTickIterator, but the loop stops on the first tick that
\* is not below currentTickIndex.
InitializeNextTickIterator_Inclusive(keys, currentTickIndex) ==
  LET startKey == TickIndexToBytes(currentTickIndex)
      scanned == {k \in keys : ~KeyLess(k, startKey)}
      stops == {k \in scanned :
                  \/ TickIndexFromBytes(k).err
                  \/ TickIndexFromBytes(k).tick >= currentTickIndex}
      first == CHOOSE k \in stops : \A j \in stops : ~KeyLess(j, k)
  IN  IF stops = {} THEN InvalidIterator
      ELSE IF TickIndexFromBytes(first).err THEN IteratorPanic(first)
      ELSE IteratorOn(first)

\* As InitializeNextTickIterator, but a key that does not parse is skipped.
InitializeNextTickIterator_SkipBadKey(keys, currentTickIndex) ==
  LET startKey == TickIndexToBytes(currentTickIndex)
      scanned == {k \in keys : ~KeyLess(k, startKey)}
      stops == {k \in scanned :
                  /\ ~TickIndexFromBytes(k).err
                  /\ TickIndexFromBytes(k).tick > currentTickIndex}
      first == CHOOSE k \in stops : \A j \in stops : ~KeyLess(j, k)
  IN  IF stops = {} THEN InvalidIterator
      ELSE IteratorOn(first)

\* As InitializeNextTickIterator, but the iterator is left open when a key does
\* not parse.
InitializeNextTickIterator_PanicOpen(keys, currentTickIndex) ==
  LET startKey == TickIndexToBytes(currentTickIndex)
      scanned == {k \in keys : ~KeyLess(k, startKey)}
      stops == {k \in scanned :
                  \/ TickIndexFromBytes(k).err
                  \/ TickIndexFromBytes(k).tick > currentTickIndex}
      first == CHOOSE k \in stops : \A j \in stops : ~KeyLess(j, k)
  IN  IF stops = {} THEN InvalidIterator
      ELSE IF TickIndexFromBytes(first).err
      THEN [IteratorPanic(first) EXCEPT !.closed = FALSE]
      ELSE IteratorOn(first)

\* The forward iterator starts at the key of currentTickIndex, inclusive,
\* and is advanced in byte order; the loop ends on the first key that does
\* not parse (the iterator is closed and the call panics) or whose tick is
\* greater than currentTickIndex (the iterator is returned on it), or with
\* the iterator at its end.  keys is the set of the tick keys of the pool.
InitializeNextTickIterator(keys, currentTickIndex) ==
  LET startKey == TickIndexToBytes(currentTickIndex)
      scanned == {k \in keys : ~KeyLess(k, startKey)}
      stops == {k \in scanned :
                  \/ TickIndexFromBytes(k).err
                  \/ TickIndexFromBytes(k).tick > currentTickIndex}
      first == CHOOSE k \in stops : \A j \in stops : ~KeyLess(j, k)
  IN  IF stops = {} THEN InvalidIterator
      ELSE IF TickIndexFromBytes(first).err THEN IteratorPanic(first)
      ELSE IteratorOn(first)

\* the tick a returned iterator stands on, NoTick when it is not valid
NoTick == MaxTick + 1

IteratorTick(iter) == IF iter.valid THEN TickIndexFromBytes(iter.key).tick ELSE NoTick

\* As SetLiquidityDeltaSign, but with the sign of the other direction.
SetLiquidityDeltaSign_Negated(deltaLiquidity) == 0 - deltaLiquidity

SetLiquidityDeltaSign(deltaLiquidity) == deltaLiquidity

\* As UpdateTickAfterCrossing, but with the tick of the other direction.
UpdateTickAfterCrossing_MinusOne(nextTick) == nextTick - 1

UpdateTickAfterCrossing(nextTick) == nextTick

\* the error ValidateSqrtPrice returns, and its return without an error
NoError == [err |-> FALSE]

SqrtPriceValidationError(SqrtPriceLimit, LowerBound, UpperBound) ==
  [err |-> TRUE, SqrtPriceLimit |-> SqrtPriceLimit, LowerBound |-> LowerBound,
   UpperBound |-> UpperBound]

\* As ValidateSqrtPrice, but a limit equal to the current price is rejected.
ValidateSqrtPrice_Strict(sqrtPrice, currentSqrtPrice) ==
  IF sqrtPrice <= currentSqrtPrice \/ sqrtPrice > MaxSqrtPrice
  THEN SqrtPriceValidationError(sqrtPrice, currentSqrtPrice, MaxSqrtPrice)
  ELSE NoError

ValidateSqrtPrice(sqrtPrice, currentSqrtPrice) ==
  IF sqrtPrice < currentSqrtPrice \/ sqrtPrice > MaxSqrtPrice
  THEN SqrtPriceValidationError(sqrtPrice, currentSqrtPrice, MaxSqrtPrice)
  ELSE NoError

(***************************************************************************)
(* State.                                                                   *)
(*   step  : the last call of a step function: its inputs and its returns   *)
(*   store : the committed state: the pool and its tick records             *)
(*   cctx  : the cached context a swap call runs on                         *)
(*   sw    : the swap call: its swap state, where it stands, the committed  *)
(*           state it was called on (before), the tick of its last lookup   *)
(*           (nextTick), the ticks it crossed, in order (crossed), and the  *)
(*           ticks the committed swap before it crossed (crossedBefore)     *)
(*   calls : how many positions and swaps were made                         *)
(*   bank  : the range test: where its loop stands, the balances the pool  *)
(*           and its spread rewards address hold, and the test's tally     *)
(***************************************************************************)
VARIABLES step, store, cctx, sw, calls, bank

vars == <<step, store, cctx, sw, calls, bank>>

NoStep == [kind |-> "none"]

\* the spread factors of the input grid: none, one ULP, a half
SpreadFactors == {0, 1, Unit \div 2}

EmptyTick == [liquidityGross |-> 0, liquidityNet |-> 0]

NoSwap == [pc |-> "idle"]

NoCalls == [positions |-> 0, swaps |-> 0]

NoBank == [pc |-> "none"]

EmptyStore(t, p, f) ==
  [sqrtPrice |-> p, tick |-> t, liquidity |-> 0, spreadFactor |-> f,
   ticks |-> [k \in Ticks |-> EmptyTick]]

StepInputs ==
  [kind : {"input"},
   exactIn : BOOLEAN,
   spreadFactor : SpreadFactors,
   sqrtPriceCurrent : 1..MaxSqrt,
   sqrtPriceTarget : 1..MaxSqrt,
   liquidity : 0..MaxLiq,
   amountRemaining : 0..MaxAmt]

StepResult(in, out) ==
  [kind |-> "result",
   exactIn |-> in.exactIn,
   spreadFactor |-> in.spreadFactor,
   sqrtPriceCurrent |-> in.sqrtPriceCurrent,
   sqrtPriceTarget |-> in.sqrtPriceTarget,
   liquidity |-> in.liquidity,
   amountRemaining |-> in.amountRemaining,
   sqrtPriceNext |-> out.sqrtPriceNext,
   amountOneIn |-> out.amountOneIn,
   amountZeroOut |-> out.amountZeroOut,
   spreadRewardChargeTotal |-> out.spreadRewardChargeTotal,
   hasReachedTarget |-> out.hasReachedTarget,
   precisionLoss |-> out.precisionLoss]

StepCall(exactIn, spreadFactor, sqrtPriceCurrent, sqrtPriceTarget, liquidity, amountRemaining) ==
  [kind |-> "input", exactIn |-> exactIn, spreadFactor |-> spreadFactor,
   sqrtPriceCurrent |-> sqrtPriceCurrent, sqrtPriceTarget |-> sqrtPriceTarget,
   liquidity |-> liquidity, amountRemaining |-> amountRemaining]

\* one call of the step function of the swap's kind
ComputeStep(in) ==
  IF in.exactIn
  THEN ComputeSwapWithinBucketOutGivenIn(in.spreadFactor, in.sqrtPriceCurrent,
         in.sqrtPriceTarget, in.liquidity, in.amountRemaining)
  ELSE ComputeSwapWithinBucketInGivenOut(in.spreadFactor, in.sqrtPriceCurrent,
         in.sqrtPriceTarget, in.liquidity, in.amountRemaining)

(***************************************************************************)
(* The step functions on their own, over a grid of inputs.                  *)
(***************************************************************************)
StepInit ==
  /\ step \in StepInputs
  /\ step.sqrtPriceCurrent <= step.sqrtPriceTarget
  /\ store = EmptyStore(0, TickToSqrtPrice(0), 0)
  /\ cctx = store
  /\ sw = NoSwap
  /\ calls = NoCalls
  /\ bank = NoBank

CallOutGivenIn ==
  /\ step.kind = "input"
  /\ step.exactIn
  /\ step' = StepResult(step, ComputeStep(step))
  /\ UNCHANGED <<store, cctx, sw, calls, bank>>

CallInGivenOut ==
  /\ step.kind = "input"
  /\ ~step.exactIn
  /\ step' = StepResult(step, ComputeStep(step))
  /\ UNCHANGED <<store, cctx, sw, calls, bank>>

StepNext == CallOutGivenIn \/ CallInGivenOut

StepSpec == StepInit /\ [][StepNext]_vars

(***************************************************************************)
(* The strategy's lookup, target and validation called on any arguments.    *)
(***************************************************************************)
\* how many keys the tick store of a lookup holds
MaxKeys == 3

\* every key of the store's key space: the ones that parse to a tick and
\* the ones that do not
AllKeys ==
  {<<p>> : p \in {0, 1}} \cup {<<p, v>> : p \in {0, 1}, v \in 0..(TickKeyModulus - 1)}

KeySets == {K \in SUBSET AllKeys : Cardinality(K) <= MaxKeys}

\* sqrt prices of the limit and of the current price of a validation
ValidatedPrices == 1..(MaxSqrtPrice + 2)

StrategyInputs ==
  [kind : {"lookup"}, keys : KeySets, currentTickIndex : Ticks]
    \cup [kind : {"target"}, sqrtPriceLimit : 1..MaxSqrtPrice,
          nextTickSqrtPrice : 1..MaxSqrtPrice]
    \cup [kind : {"validate"}, sqrtPrice : ValidatedPrices,
          currentSqrtPrice : 1..MaxSqrtPrice]

StrategyInit ==
  /\ step \in StrategyInputs
  /\ store = EmptyStore(0, TickToSqrtPrice(0), 0)
  /\ cctx = store
  /\ sw = NoSwap
  /\ calls = NoCalls
  /\ bank = NoBank

CallInitializeNextTickIterator ==
  /\ step.kind = "lookup"
  /\ step' = [kind |-> "lookupResult", keys |-> step.keys,
              currentTickIndex |-> step.currentTickIndex,
              iter |-> InitializeNextTickIterator(step.keys, step.currentTickIndex)]
  /\ UNCHANGED <<store, cctx, sw, calls, bank>>

CallGetSqrtTargetPrice ==
  /\ step.kind = "target"
  /\ step' = [kind |-> "targetResult", sqrtPriceLimit |-> step.sqrtPriceLimit,
              nextTickSqrtPrice |-> step.nextTickSqrtPrice,
              sqrtPriceTarget |->
                GetSqrtTargetPrice(step.sqrtPriceLimit, step.nextTickSqrtPrice)]
  /\ UNCHANGED <<store, cctx, sw, calls, bank>>

CallValidateSqrtPrice ==
  /\ step.kind = "validate"
  /\ step' = [kind |-> "validateResult", sqrtPrice |-> step.sqrtPrice,
              currentSqrtPrice |-> step.currentSqrtPrice,
              result |-> ValidateSqrtPrice(step.sqrtPrice, step.currentSqrtPrice)]
  /\ UNCHANGED <<store, cctx, sw, calls, bank>>

StrategyNext ==
  CallInitializeNextTickIterator \/ CallGetSqrtTargetPrice \/ CallValidateSqrtPrice

StrategySpec == StrategyInit /\ [][StrategyNext]_vars

(***************************************************************************)
(* The pool: positions and swaps.                                           *)
(***************************************************************************)
\* liquidity amounts of the positions that are created, in ULPs
PositionLiquidities == {Unit \div 2, 2 * Unit}

\* amounts a swap is called with, in ULPs
SwapAmounts == {1, 4, 2 * Unit}

\* price limits a swap is called with: the global bounds, a tick price and
\* a price inside a bucket
SqrtPriceLimits ==
  {MinSqrtPrice, TickToSqrtPrice(0), TickToSqrtPrice(0) + 1, MaxSqrtPrice}

\* spread factors of the pools: none and a half
PoolSpreadFactors == {0, Unit \div 2}

InitializedTicks(ticks) == {k \in Ticks : ticks[k].liquidityGross > 0}

\* the keys of the tick records of the pool
TickKeys(ticks) == {TickIndexToBytes(k) : k \in InitializedTicks(ticks)}

\* CreatePosition: liquidity is added at the lower tick and subtracted at
\* the upper tick; a position whose range holds the current tick is active
CreatePosition(lowerTick, upperTick, liquidityDelta) ==
  /\ sw.pc \in {"idle", "returned"}
  /\ calls.positions < MaxPositions
  /\ lowerTick < upperTick
  /\ store' =
       [store EXCEPT
          !.ticks[lowerTick] =
             [liquidityGross |-> @.liquidityGross + liquidityDelta,
              liquidityNet |-> @.liquidityNet + liquidityDelta],
          !.ticks[upperTick] =
             [liquidityGross |-> @.liquidityGross + liquidityDelta,
              liquidityNet |-> @.liquidityNet - liquidityDelta],
          !.liquidity =
             IF lowerTick <= store.tick /\ store.tick < upperTick
             THEN @ + liquidityDelta ELSE @]
  /\ cctx' = store'
  /\ calls' = [calls EXCEPT !.positions = @ + 1]
  /\ sw' = NoSwap
  /\ UNCHANGED step

\* where the loop stands for a swap state: the loop runs while an amount
\* remains and the price is not the limit
LoopStatus(amountSpecifiedRemaining, sqrtPrice, sqrtPriceLimit) ==
  IF amountSpecifiedRemaining <= 0 THEN "Exhausted"
  ELSE IF sqrtPrice = sqrtPriceLimit THEN "PriceLimitReached"
  ELSE "Stepping"

\* a swap call that returns without an error
Succeeded(status) == status \in {"Exhausted", "PriceLimitReached"}

\* A swap is called on a cached context.  The price limit is validated
\* before the loop starts; the swap state is made from the pool.
BeginSwap(exactIn, amountSpecified, sqrtPriceLimit) ==
  /\ sw.pc \in {"idle", "returned"}
  /\ calls.swaps < MaxSwaps
  /\ calls' = [calls EXCEPT !.swaps = @ + 1]
  /\ cctx' = store
  /\ IF ValidateSqrtPrice(sqrtPriceLimit, store.sqrtPrice).err
     THEN sw' = [pc |-> "returned", status |-> "SqrtPriceValidationError",
                 before |-> store,
                 error |-> ValidateSqrtPrice(sqrtPriceLimit, store.sqrtPrice)]
     ELSE sw' = [pc |-> "loop",
                 before |-> store,
                 status |-> LoopStatus(amountSpecified, store.sqrtPrice, sqrtPriceLimit),
                 exactIn |-> exactIn,
                 sqrtPriceLimit |-> sqrtPriceLimit,
                 amountSpecifiedRemaining |-> amountSpecified,
                 amountCalculated |-> 0,
                 sqrtPrice |-> store.sqrtPrice,
                 tick |-> store.tick,
                 liquidity |-> store.liquidity,
                 startTick |-> store.tick,
                 steps |-> 0,
                 nextTick |-> NoTick,
                 crossed |-> <<>>,
                 crossedBefore |->
                   IF sw.pc = "returned" /\ Succeeded(sw.status)
                   THEN sw.crossed ELSE <<>>]
  /\ step' = NoStep
  /\ UNCHANGED store

\* the swap state after one iteration of the loop
AfterStep(s, in, out, nextTick) ==
  LET consumed == IF s.exactIn THEN out.amountOneIn + out.spreadRewardChargeTotal
                  ELSE out.amountZeroOut
      produced == IF s.exactIn THEN out.amountZeroOut
                  ELSE out.amountOneIn + out.spreadRewardChargeTotal
      remaining == s.amountSpecifiedRemaining - consumed
      crosses == nextTick # NoTick /\ out.sqrtPriceNext = TickToSqrtPrice(nextTick)
      liquidity ==
        IF crosses
        THEN s.liquidity + SetLiquidityDeltaSign(cctx.ticks[nextTick].liquidityNet)
        ELSE s.liquidity
      tick ==
        IF crosses THEN UpdateTickAfterCrossing(nextTick)
        ELSE IF out.sqrtPriceNext # s.sqrtPrice THEN SqrtPriceToTick(out.sqrtPriceNext)
        ELSE s.tick
  IN  [s EXCEPT
         !.amountSpecifiedRemaining = remaining,
         !.amountCalculated = @ + produced,
         !.sqrtPrice = out.sqrtPriceNext,
         !.tick = tick,
         !.liquidity = liquidity,
         !.steps = @ + 1,
         !.nextTick = nextTick,
         !.crossed = IF crosses THEN Append(@, nextTick) ELSE @,
         !.status = IF liquidity < 0 THEN "NegativeLiquidity"
                    ELSE LoopStatus(remaining, out.sqrtPriceNext, s.sqrtPriceLimit)]

\* One iteration of the loop: the next tick, the target, the step, the
\* update of the swap state and the crossing.
SwapStep ==
  /\ sw.pc = "loop"
  /\ sw.status = "Stepping"
  /\ LET nextTickIter == InitializeNextTickIterator(TickKeys(cctx.ticks), sw.tick)
         nextTick == IteratorTick(nextTickIter)
         nextTickSqrtPrice ==
           IF nextTick = NoTick THEN MaxSqrtPrice ELSE TickToSqrtPrice(nextTick)
         sqrtPriceTarget == GetSqrtTargetPrice(sw.sqrtPriceLimit, nextTickSqrtPrice)
         in == StepCall(sw.exactIn, cctx.spreadFactor, sw.sqrtPrice, sqrtPriceTarget,
                        sw.liquidity, sw.amountSpecifiedRemaining)
         out == ComputeStep(in)
     IN  IF nextTickIter.panic
         THEN /\ sw' = [sw EXCEPT !.status = "Panic"]
              /\ UNCHANGED step
         ELSE IF nextTick = NoTick /\ sw.liquidity = 0
         THEN /\ sw' = [sw EXCEPT !.status = "NoLiquidity", !.nextTick = NoTick]
              /\ UNCHANGED step
         ELSE /\ step' = StepResult(in, out)
              /\ sw' = AfterStep(sw, in, out, nextTick)
  /\ UNCHANGED <<store, cctx, calls>>

\* As EndSwap, but the swap state is written whatever the call returns.
EndSwap_WriteOnError ==
  /\ sw.pc = "loop"
  /\ sw.status # "Stepping"
  /\ sw' = [sw EXCEPT !.pc = "returned"]
  /\ cctx' =
       IF Succeeded(sw.status)
       THEN [cctx EXCEPT !.sqrtPrice = sw.sqrtPrice, !.tick = sw.tick,
                         !.liquidity = sw.liquidity]
       ELSE cctx
  /\ store' = [cctx' EXCEPT !.sqrtPrice = sw.sqrtPrice, !.tick = sw.tick,
                             !.liquidity = sw.liquidity]
  /\ UNCHANGED <<step, calls>>

\* The loop has ended.  On success the swap state is written to the pool of
\* the cached context and the cached context is written; on an error the
\* call returns and the cached context is dropped.
EndSwap ==
  /\ sw.pc = "loop"
  /\ sw.status # "Stepping"
  /\ sw' = [sw EXCEPT !.pc = "returned"]
  /\ cctx' =
       IF Succeeded(sw.status)
       THEN [cctx EXCEPT !.sqrtPrice = sw.sqrtPrice, !.tick = sw.tick,
                         !.liquidity = sw.liquidity]
       ELSE cctx
  /\ store' = IF Succeeded(sw.status) THEN cctx' ELSE store
  /\ UNCHANGED <<step, calls>>

\* a pool without positions: the price is on its tick or one ULP above it
Init ==
  /\ \E t \in Ticks, o \in {0, 1}, f \in PoolSpreadFactors :
       /\ t < MaxTick \/ o = 0
       /\ store = EmptyStore(t, TickToSqrtPrice(t) + o, f)
  /\ cctx = store
  /\ sw = NoSwap
  /\ step = NoStep
  /\ calls = NoCalls
  /\ bank = NoBank

Next ==
  \/ \E lowerTick \in Ticks, upperTick \in Ticks, l \in PositionLiquidities :
       CreatePosition(lowerTick, upperTick, l) /\ UNCHANGED bank
  \/ \E exactIn \in BOOLEAN, a \in SwapAmounts, l \in SqrtPriceLimits :
       BeginSwap(exactIn, a, l) /\ UNCHANGED bank
  \/ SwapStep /\ UNCHANGED bank
  \/ EndSwap /\ UNCHANGED bank

Spec == Init /\ [][Next]_vars

(***************************************************************************)
(* The range test: positions are created one after another and, after each *)
(* of them, a swap towards the next tick boundary is run on a cached        *)
(* context.  Balances are whole tokens.                                     *)
(***************************************************************************)
\* liquidity amounts of the positions of the range test, in ULPs
HarnessLiquidities == {2 * Unit, 5 * Unit}

\* Dec.TruncateInt and Dec.Ceil().TruncateInt: a decimal as whole tokens
TruncateInt(d) == FloorDiv(d, Unit)

CeilInt(d) == CeilDiv(d, Unit)

NoCoins == [zero |-> 0, one |-> 0]

AddCoins(a, b) == [zero |-> a.zero + b.zero, one |-> a.one + b.one]

\* the tokens a new position deposits at the current price: token zero for
\* the part of its range above the price, token one for the part below
ActualAddedCoins(pool, lowerTick, upperTick, liquidityDelta) ==
  LET lower == TickToSqrtPrice(lowerTick)
      upper == TickToSqrtPrice(upperTick)
  IN  IF pool.tick < lowerTick
      THEN [zero |-> CeilInt(CalcAmount0Delta(liquidityDelta, lower, upper, TRUE)),
            one |-> 0]
      ELSE IF pool.tick < upperTick
      THEN [zero |-> CeilInt(CalcAmount0Delta(liquidityDelta, pool.sqrtPrice, upper, TRUE)),
            one |-> CeilInt(CalcAmount1Delta(liquidityDelta, pool.sqrtPrice, lower, TRUE))]
      ELSE [zero |-> 0,
            one |-> CeilInt(CalcAmount1Delta(liquidityDelta, lower, upper, TRUE))]

\* the test before its first position; swaps tells whether the test case
\* swaps between its positions
HarnessInit ==
  /\ \E t \in Ticks, o \in {0, 1}, f \in PoolSpreadFactors :
       /\ t < MaxTick \/ o = 0
       /\ store = EmptyStore(t, TickToSqrtPrice(t) + o, f)
  /\ cctx = store
  /\ sw = NoSwap
  /\ step = NoStep
  /\ calls = NoCalls
  /\ \E swaps \in BOOLEAN :
       bank = [pc |-> "position", swaps |-> swaps,
               poolAssets |-> NoCoins, totalAssets |-> NoCoins,
               actualAddedCoins |-> NoCoins, swapInFunded |-> 0]

\* setupRangesAndAssertInvariants: a position is created and its tokens are
\* deposited to the pool
HarnessCreatePosition(lowerTick, upperTick, liquidityDelta) ==
  /\ bank.pc = "position"
  /\ CreatePosition(lowerTick, upperTick, liquidityDelta)
  /\ bank' =
       [bank EXCEPT
          !.pc = "swap",
          !.actualAddedCoins =
             ActualAddedCoins(store, lowerTick, upperTick, liquidityDelta),
          !.poolAssets =
             AddCoins(@, ActualAddedCoins(store, lowerTick, upperTick, liquidityDelta)),
          !.swapInFunded = 0]

\* osmomath.SmallestDec: one ULP of a BigDec
SmallestBigDec == 1

\* executeSwapToTickBoundary: the smallest amount of token zero the pool has
\* to hold for a swap to be tried
MinSwapOutAmount(pool) ==
  LET sqrtPrice == BigDecFromSDKDec(pool.sqrtPrice)
      poolSpotPrice == RoundDiv(sqrtPrice * sqrtPrice, BigUnit)
  IN  TruncateInt(SDKDec(RoundDiv(poolSpotPrice * SmallestBigDec, BigUnit)))

\* As SwapInFunded, but the amount is rounded up to a whole token.
SwapInFunded_RoundedUp(pool) ==
  CeilInt(CalcAmount1Delta(pool.liquidity, pool.sqrtPrice,
                           TickToSqrtPrice(pool.tick + 1), TRUE))

\* executeSwapToTickBoundary: the amount of token one that moves the price
\* to the next tick boundary above the current tick, truncated
SwapInFunded(pool) ==
  TruncateInt(CalcAmount1Delta(pool.liquidity, pool.sqrtPrice,
                               TickToSqrtPrice(pool.tick + 1), TRUE))

\* executeRandomizedSwap returns not ok without a swap: the test case does
\* not swap, or the pool holds too little of token zero.  The loop of the
\* test continues with the next position.
HarnessSkipSwap ==
  /\ bank.pc = "swap"
  /\ ~bank.swaps \/ bank.poolAssets.zero <= MinSwapOutAmount(store)
  /\ bank' = [bank EXCEPT !.pc = "position"]
  /\ UNCHANGED <<step, store, cctx, sw, calls>>

\* executeSwapToTickBoundary calls the swap of the funded amount, exact in,
\* without a price limit
HarnessBeginSwap ==
  /\ bank.pc = "swap"
  /\ bank.swaps
  /\ bank.poolAssets.zero > MinSwapOutAmount(store)
  /\ BeginSwap(TRUE, SwapInFunded(store) * Unit, MaxSqrtPrice)
  /\ bank' = [bank EXCEPT !.pc = "swapping", !.swapInFunded = SwapInFunded(store)]

HarnessSwapStep ==
  /\ bank.pc = "swapping"
  /\ SwapStep
  /\ UNCHANGED bank

\* the whole tokens of a swap that has ended: the amount in is rounded up,
\* the amount out is truncated
SwappedIn == CeilInt(bank.swapInFunded * Unit - sw.amountSpecifiedRemaining)

SwappedOut == TruncateInt(sw.amountCalculated)

\* the swap has computed no token out for an amount in
InvalidAmountCalculated ==
  Succeeded(sw.status) /\ bank.swapInFunded > 0 /\ SwappedOut = 0

\* The swap returns to executeSwapToTickBoundary.  An
\* InvalidAmountCalculatedError with a zero Amount makes it return not ok:
\* the cached context is dropped and the loop of the test continues.  Any
\* other error fails the test.  On success the cached context is written
\* and the position's tokens and the swapped tokens are added to the tally.
HarnessEndSwap ==
  /\ bank.pc = "swapping"
  /\ sw.pc = "loop"
  /\ sw.status # "Stepping"
  /\ IF InvalidAmountCalculated
     THEN /\ sw' = [pc |-> "returned", status |-> "InvalidAmountCalculatedError",
                    Amount |-> SwappedOut, before |-> sw.before]
          /\ cctx' = store
          /\ bank' = [bank EXCEPT !.pc = "position"]
          /\ UNCHANGED <<step, store, calls>>
     ELSE /\ EndSwap
          /\ bank' =
               IF Succeeded(sw.status)
               THEN [bank EXCEPT
                       !.pc = "position",
                       !.poolAssets =
                          AddCoins(@, [zero |-> 0 - SwappedOut, one |-> SwappedIn]),
                       !.totalAssets =
                          AddCoins(AddCoins(@, bank.actualAddedCoins),
                                   [zero |-> 0 - SwappedOut, one |-> SwappedIn])]
               ELSE [bank EXCEPT !.pc = "failed"]

HarnessNext ==
  \/ \E lowerTick \in Ticks, upperTick \in Ticks, l \in HarnessLiquidities :
       HarnessCreatePosition(lowerTick, upperTick, l)
  \/ HarnessSkipSwap
  \/ HarnessBeginSwap
  \/ HarnessSwapStep
  \/ HarnessEndSwap

HarnessSpec == HarnessInit /\ [][HarnessNext]_vars

(***************************************************************************)
(* Properties.                                                              *)
(***************************************************************************)
\* a step function has returned
StepDone == step.kind = "result"

\* the amount of the specified token a step returns
SpecifiedAmount == IF step.exactIn THEN step.amountOneIn ELSE step.amountZeroOut

\* a swap call has passed the validation of its price limit
InSwap == sw.pc \in {"loop", "returned"} /\ sw.status # "SqrtPriceValidationError"

\* the initialized ticks between the start of the swap and its price limit
TicksToLimit ==
  Cardinality({t \in InitializedTicks(sw.before.ticks) :
                 t > sw.startTick /\ TickToSqrtPrice(t) <= sw.sqrtPriceLimit})

\* C1: the loop reaches a terminal state in at most (number of initialized
\* ticks between the start price and the price limit) + 1 iterations.
C1_LoopEndsWithinTicksPlusOne ==
  InSwap =>
    /\ sw.steps <= TicksToLimit + 1
    /\ sw.status = "Stepping" => sw.steps <= TicksToLimit

\* C2: for liquidity > 0, target above current and a nonzero remaining
\* amount, a step returns a positive specified amount (plus the charge, for a
\* given amount in) or a sqrtPriceNext above sqrtPriceCurrent.
C2_StepMakesProgress ==
  (/\ StepDone
   /\ step.liquidity > 0
   /\ step.sqrtPriceTarget > step.sqrtPriceCurrent
   /\ step.amountRemaining # 0)
  => \/ step.sqrtPriceNext > step.sqrtPriceCurrent
     \/ IF step.exactIn
        THEN step.amountOneIn + step.spreadRewardChargeTotal > 0
        ELSE step.amountZeroOut > 0

\* a step for a given amount out that leaves the price where it is and yet
\* returns an amount
C2_Witness ==
  /\ StepDone
  /\ ~step.exactIn
  /\ step.liquidity > 0
  /\ step.sqrtPriceTarget > step.sqrtPriceCurrent
  /\ step.amountRemaining # 0
  /\ step.sqrtPriceNext = step.sqrtPriceCurrent
  /\ step.amountZeroOut > 0

\* C3: a step that does not reach its target, computes sqrtPriceNext equal
\* to sqrtPriceCurrent and has a nonzero remaining amount returns the whole
\* remaining amount as its specified amount, and the loop then stands at
\* Exhausted with nothing remaining.
C3_PrecisionLossConsumesAll ==
  (/\ InSwap
   /\ StepDone
   /\ ~step.hasReachedTarget
   /\ step.sqrtPriceNext = step.sqrtPriceCurrent
   /\ step.amountRemaining # 0)
  => /\ SpecifiedAmount = step.amountRemaining
     /\ sw.amountSpecifiedRemaining = 0
     /\ sw.status = "Exhausted"

\* a swap for a given amount out whose last step lost the precision
C3_Witness ==
  /\ InSwap
  /\ StepDone
  /\ ~step.exactIn
  /\ ~step.hasReachedTarget
  /\ step.sqrtPriceNext = step.sqrtPriceCurrent
  /\ step.amountRemaining # 0
  /\ sw.status = "Exhausted"

\* C4: the step for a given amount out never returns more token zero out
\* than was requested.
C4_NeverMoreOutThanRequested ==
  (StepDone /\ ~step.exactIn /\ step.liquidity > 0)
  => step.amountZeroOut <= step.amountRemaining

\* C5: a swap is atomic.  While the loop runs the committed state is the
\* state the swap was called on; after a call that returned an error it
\* still is; after a successful call the price, the tick and the liquidity
\* of the swap state are committed together and the tick records are as
\* they were.
C5_SwapIsAtomic ==
  /\ sw.pc = "loop" => store = sw.before
  /\ (sw.pc = "returned" /\ ~Succeeded(sw.status)) => store = sw.before
  /\ (sw.pc = "returned" /\ Succeeded(sw.status)) =>
       store = [sw.before EXCEPT !.sqrtPrice = sw.sqrtPrice, !.tick = sw.tick,
                                 !.liquidity = sw.liquidity]

\* a call that returned an error after its loop had moved the price
C5_Witness ==
  /\ sw.pc = "returned"
  /\ sw.status = "NoLiquidity"
  /\ sw.steps > 0
  /\ sw.sqrtPrice # store.sqrtPrice
  /\ store = sw.before

\* the move of the price of a step, and the product of its two prices
PriceMove == step.sqrtPriceNext - step.sqrtPriceCurrent

PriceProduct == step.sqrtPriceNext * step.sqrtPriceCurrent

\* the amount in is at least liquidity * move, and at most one ULP above
AmountInRoundedUp ==
  /\ step.amountOneIn * Unit >= step.liquidity * PriceMove
  /\ step.amountOneIn * Unit - step.liquidity * PriceMove <= Unit

\* the amount out is at most liquidity * move / (next * current)
AmountOutRoundedDown ==
  step.amountZeroOut * PriceProduct <= step.liquidity * PriceMove * Unit

\* the amount out is at most one ULP below liquidity * move / (next * current)
AmountOutWithinOneULP ==
  step.liquidity * PriceMove * Unit - step.amountZeroOut * PriceProduct <= PriceProduct

\* C6 as stated: every step returns an amount in not below, and an amount
\* out not above, the curve amount of the move from sqrtPriceCurrent to
\* sqrtPriceNext, each within one ULP of it.
C6_EveryStepRoundsForPoolWithinOneULP ==
  StepDone => AmountInRoundedUp /\ AmountOutRoundedDown /\ AmountOutWithinOneULP

\* C6 amended: every step that does not take the recovery from the loss of
\* precision returns an amount in not below the curve amount and at most
\* one ULP above it, and an amount out not above the curve amount.
C6_StepRoundsForPool ==
  (StepDone /\ ~step.precisionLoss) => AmountInRoundedUp /\ AmountOutRoundedDown

\* a step inside a bucket whose amount in is rounded up and whose amount out
\* is rounded down
C6_Witness ==
  /\ StepDone
  /\ ~step.precisionLoss
  /\ ~step.hasReachedTarget
  /\ step.amountOneIn * Unit > step.liquidity * PriceMove
  /\ step.amountZeroOut * PriceProduct < step.liquidity * PriceMove * Unit

\* C7: for liquidity > 0 the returned sqrtPriceNext is the target when the
\* target is reached, and between sqrtPriceCurrent and the target otherwise.
C7_NextBetweenCurrentAndTarget ==
  (StepDone /\ step.liquidity > 0)
  => /\ step.sqrtPriceCurrent <= step.sqrtPriceNext
     /\ step.sqrtPriceNext <= step.sqrtPriceTarget
     /\ step.hasReachedTarget => step.sqrtPriceNext = step.sqrtPriceTarget

\* the estimate, the remaining amount less the spread reward, and the solved
\* price of a step for a given amount in
EstimateToTarget ==
  CalcAmount1Delta(step.liquidity, step.sqrtPriceTarget, step.sqrtPriceCurrent, TRUE)

RemainingLessFee == Mul(step.amountRemaining, OneDec - step.spreadFactor)

SolvedSqrtPrice ==
  GetNextSqrtPriceFromAmount1InRoundingDown(step.sqrtPriceCurrent, step.liquidity, RemainingLessFee)

AmountsOfTheMove ==
  /\ step.amountOneIn =
       CalcAmount1Delta(step.liquidity, step.sqrtPriceNext, step.sqrtPriceCurrent, TRUE)
  /\ step.amountZeroOut =
       CalcAmount0Delta(step.liquidity, step.sqrtPriceNext, step.sqrtPriceCurrent, FALSE)

\* C8 as stated: the step for a given amount in returns the target and the
\* estimate when the remaining amount less the fee covers the estimate, and
\* otherwise the solved price and the amount in recomputed for it; the
\* amount out is the delta of the same range in both branches.
C8_TwoBranchStep ==
  (StepDone /\ step.exactIn) =>
    IF RemainingLessFee >= EstimateToTarget
    THEN /\ step.sqrtPriceNext = step.sqrtPriceTarget
         /\ step.amountOneIn = EstimateToTarget
         /\ AmountsOfTheMove
    ELSE /\ step.sqrtPriceNext = SolvedSqrtPrice
         /\ AmountsOfTheMove

\* C8 amended: as stated, except that a step of the second branch whose
\* solved price is sqrtPriceCurrent, with a nonzero remaining amount, returns
\* the whole remaining amount as its amount in.
C8_TwoBranchStepOrRecovery ==
  (StepDone /\ step.exactIn) =>
    IF RemainingLessFee >= EstimateToTarget
    THEN /\ step.sqrtPriceNext = step.sqrtPriceTarget
         /\ step.amountOneIn = EstimateToTarget
         /\ AmountsOfTheMove
    ELSE /\ step.sqrtPriceNext = SolvedSqrtPrice
         /\ IF SolvedSqrtPrice = step.sqrtPriceCurrent /\ step.amountRemaining # 0
            THEN step.amountOneIn = step.amountRemaining
            ELSE AmountsOfTheMove

\* a step of the second branch that moves the price
C8_Witness ==
  /\ StepDone
  /\ step.exactIn
  /\ RemainingLessFee < EstimateToTarget
  /\ step.sqrtPriceNext > step.sqrtPriceCurrent
  /\ step.amountOneIn > 0

LookupDone == step.kind = "lookupResult"

AllKeysParse == \A k \in step.keys : ~TickIndexFromBytes(k).err

StoredTicks == {TickIndexFromBytes(k).tick : k \in step.keys}

TicksAbove == {t \in StoredTicks : t > step.currentTickIndex}

\* C11: on any set of initialized ticks, negative ones included, the lookup
\* returns an iterator on the smallest initialized tick greater than
\* currentTickIndex, and an iterator that is not valid exactly when there
\* is no such tick.
C11_NextTickIsSmallestAbove ==
  (LookupDone /\ AllKeysParse) =>
    /\ ~step.iter.panic
    /\ step.iter.valid <=> TicksAbove # {}
    /\ step.iter.valid =>
         /\ IteratorTick(step.iter) \in TicksAbove
         /\ \A t \in TicksAbove : IteratorTick(step.iter) <= t

\* a lookup from a negative tick whose key is stored: that tick is skipped
\* and the iterator stands on a negative tick, with a tick of the other
\* sign stored as well
C11_Witness ==
  /\ LookupDone
  /\ AllKeysParse
  /\ step.currentTickIndex < 0
  /\ step.currentTickIndex \in StoredTicks
  /\ step.iter.valid
  /\ IteratorTick(step.iter) < 0
  /\ \E t \in StoredTicks : t > 0

\* the target selection has returned
TargetDone == step.kind = "targetResult"

\* C16: GetSqrtTargetPrice never returns a price above the price limit: it
\* returns the limit if the price of the next tick is greater than the
\* limit, and the price of the next tick otherwise.
C16_TargetNeverAboveLimit ==
  TargetDone =>
    /\ step.sqrtPriceTarget <= step.sqrtPriceLimit
    /\ IF step.nextTickSqrtPrice > step.sqrtPriceLimit
       THEN step.sqrtPriceTarget = step.sqrtPriceLimit
       ELSE step.sqrtPriceTarget = step.nextTickSqrtPrice

\* the price of the next tick is above the limit and the limit is returned
C16_Witness ==
  /\ TargetDone
  /\ step.nextTickSqrtPrice > step.sqrtPriceLimit
  /\ step.sqrtPriceTarget = step.sqrtPriceLimit

\* C17 as stated: GetSqrtTargetPrice returns the maximum of the price of
\* the next tick and the price limit.
C17_TargetIsMaximum ==
  TargetDone =>
    /\ step.sqrtPriceTarget >= step.nextTickSqrtPrice
    /\ step.sqrtPriceTarget >= step.sqrtPriceLimit
    /\ step.sqrtPriceTarget \in {step.nextTickSqrtPrice, step.sqrtPriceLimit}

\* C17 amended: GetSqrtTargetPrice returns the minimum of the price of the
\* next tick and the price limit.
C17_TargetIsMinimum ==
  TargetDone =>
    /\ step.sqrtPriceTarget <= step.nextTickSqrtPrice
    /\ step.sqrtPriceTarget <= step.sqrtPriceLimit
    /\ step.sqrtPriceTarget \in {step.nextTickSqrtPrice, step.sqrtPriceLimit}

\* the price of the next tick is below the limit and is returned
C17_Witness ==
  /\ TargetDone
  /\ step.nextTickSqrtPrice < step.sqrtPriceLimit
  /\ step.sqrtPriceTarget = step.nextTickSqrtPrice

\* the validation has returned
ValidateDone == step.kind = "validateResult"

\* C18: ValidateSqrtPrice accepts a limit if and only if
\* currentSqrtPrice <= limit <= MaxSqrtPrice; otherwise it returns the
\* error with the limit, the current price as the lower bound and
\* MaxSqrtPrice as the upper bound; the pool and its ticks are as before.
C18_ValidateAcceptsWithinBounds ==
  ValidateDone =>
    /\ ~step.result.err <=>
         (step.currentSqrtPrice <= step.sqrtPrice /\ step.sqrtPrice <= MaxSqrtPrice)
    /\ step.result.err =>
         /\ step.result.SqrtPriceLimit = step.sqrtPrice
         /\ step.result.LowerBound = step.currentSqrtPrice
         /\ step.result.UpperBound = MaxSqrtPrice
    /\ store = EmptyStore(0, TickToSqrtPrice(0), 0)
    /\ cctx = store

\* a limit equal to the current price is accepted
C18_Witness ==
  /\ ValidateDone
  /\ step.sqrtPrice = step.currentSqrtPrice
  /\ step.sqrtPrice < MaxSqrtPrice
  /\ ~step.result.err

\* the price limit a swap was called with
SwapLimit ==
  IF sw.status = "SqrtPriceValidationError"
  THEN sw.error.SqrtPriceLimit ELSE sw.sqrtPriceLimit

\* C19 as stated: a swap whose price limit equals the current sqrt price
\* of the pool is rejected by ValidateSqrtPrice before the loop starts.
C19_LimitAtCurrentRejected ==
  (sw.pc # "idle" /\ SwapLimit = sw.before.sqrtPrice)
  => sw.status = "SqrtPriceValidationError"

\* C19 amended: a swap whose price limit equals the current sqrt price of
\* the pool is accepted by ValidateSqrtPrice; its loop takes no step and
\* ends with PriceLimitReached, and the pool is as before.
C19_LimitAtCurrentIsNoOp ==
  (sw.pc # "idle" /\ SwapLimit = sw.before.sqrtPrice)
  => /\ sw.status = "PriceLimitReached"
     /\ sw.steps = 0
     /\ sw.amountCalculated = 0
     /\ store = sw.before

\* such a swap has returned, on a pool with liquidity
C19_Witness ==
  /\ sw.pc = "returned"
  /\ sw.status = "PriceLimitReached"
  /\ sw.sqrtPriceLimit = sw.before.sqrtPrice
  /\ sw.before.liquidity > 0
  /\ sw.steps = 0

\* C20 as stated: the lookup never panics.
C20_LookupNeverPanics == LookupDone => ~step.iter.panic

\* the keys a lookup scans, and the ones among them it stops on
ScannedKeys ==
  {k \in step.keys : ~KeyLess(k, TickIndexToBytes(step.currentTickIndex))}

KeysOfTicksAbove ==
  {k \in ScannedKeys :
     ~TickIndexFromBytes(k).err /\ TickIndexFromBytes(k).tick > step.currentTickIndex}

\* C20 amended: when the lookup comes to a key that does not parse before
\* it finds a tick greater than currentTickIndex, it closes the iterator
\* and panics; otherwise it returns an iterator.  No error is returned.
C20_LookupPanicsOnBadKey ==
  LookupDone =>
    /\ step.iter.panic <=>
         \E bad \in ScannedKeys :
           /\ TickIndexFromBytes(bad).err
           /\ \A k \in KeysOfTicksAbove : KeyLess(bad, k)
    /\ step.iter.panic => (step.iter.closed /\ ~step.iter.valid)

\* a panic on a store that holds a tick greater than currentTickIndex
C20_Witness ==
  /\ LookupDone
  /\ step.iter.panic
  /\ step.iter.closed
  /\ KeysOfTicksAbove # {}

\* the last iteration of the loop crossed the tick of its lookup
LastStepCrossed ==
  /\ InSwap
  /\ StepDone
  /\ sw.nextTick # NoTick
  /\ step.sqrtPriceNext = TickToSqrtPrice(sw.nextTick)

\* the liquidity of the positions whose range holds tick t: the sum of the
\* net liquidity of the ticks up to t
RECURSIVE NetUpTo(_, _)
NetUpTo(ticks, t) ==
  IF t < MinTick THEN 0 ELSE ticks[t].liquidityNet + NetUpTo(ticks, t - 1)

\* C12: after the crossing of tick T the current tick is T, and T is the
\* inclusive lower bound of the active bucket: the running liquidity is
\* the liquidity of the positions with lowerTick <= T < upperTick, and the
\* next initialized tick above T, if any, is the upper bound.
C12_ActiveRangeAfterCrossing ==
  LastStepCrossed =>
    /\ sw.tick = sw.nextTick
    /\ sw.sqrtPrice = TickToSqrtPrice(sw.tick)
    /\ sw.liquidity = NetUpTo(sw.before.ticks, sw.tick)
    /\ IteratorTick(InitializeNextTickIterator(TickKeys(sw.before.ticks), sw.tick)) > sw.tick

\* a crossing into a bucket with liquidity and an upper bound
C12_Witness ==
  /\ LastStepCrossed
  /\ sw.tick = sw.nextTick
  /\ sw.liquidity > 0
  /\ sw.liquidity # step.liquidity
  /\ IteratorTick(InitializeNextTickIterator(TickKeys(sw.before.ticks), sw.tick)) # NoTick

\* the ticks of a sequence of crossings
CrossedTicks(crossed) == {crossed[i] : i \in 1..Len(crossed)}

\* the swap follows a committed swap that crossed ticks and left the
\* current tick on the last of them
FollowsCrossing ==
  /\ InSwap
  /\ sw.crossedBefore # <<>>
  /\ sw.startTick = sw.crossedBefore[Len(sw.crossedBefore)]

\* C13: no tick is crossed twice by consecutive swaps: when the first swap
\* crossed X and left the current tick on X, every lookup of the second
\* swap returns a tick greater than X or none, and the second swap crosses
\* none of the ticks the first one crossed.
C13_NoTickCrossedTwice ==
  FollowsCrossing =>
    /\ sw.nextTick = NoTick \/ sw.nextTick > sw.startTick
    /\ \A t \in CrossedTicks(sw.crossed) : t > sw.startTick
    /\ CrossedTicks(sw.crossed) \cap CrossedTicks(sw.crossedBefore) = {}

\* the second swap has looked up a tick above X and crossed it
C13_Witness ==
  /\ FollowsCrossing
  /\ sw.steps > 0
  /\ sw.nextTick # NoTick
  /\ sw.crossed # <<>>

\* how many times tick t occurs in a sequence of crossings
Crossings(crossed, t) == Cardinality({i \in 1..Len(crossed) : crossed[i] = t})

\* C14: a step that ends exactly on the price of the next initialized tick
\* crosses it: the tick is crossed once, the running liquidity changes by
\* the net liquidity stored on the tick, with the sign it is stored with,
\* and the loop goes on with the amount that remains.
C14_ExactReachCrossesOnce ==
  LastStepCrossed =>
    /\ Crossings(sw.crossed, sw.nextTick) = 1
    /\ sw.crossed[Len(sw.crossed)] = sw.nextTick
    /\ sw.liquidity = step.liquidity + sw.before.ticks[sw.nextTick].liquidityNet
    /\ sw.amountSpecifiedRemaining = step.amountRemaining - SpecifiedAmount
         - (IF step.exactIn THEN step.spreadRewardChargeTotal ELSE 0)
    /\ (sw.amountSpecifiedRemaining > 0 /\ sw.sqrtPrice # sw.sqrtPriceLimit)
         => sw.status = "Stepping"

\* a tick with a net liquidity is crossed after an earlier crossing, an
\* amount remains and the loop goes on
C14_Witness ==
  /\ LastStepCrossed
  /\ sw.pc = "loop"
  /\ sw.status = "Stepping"
  /\ Len(sw.crossed) = 2
  /\ sw.before.ticks[sw.nextTick].liquidityNet < 0
  /\ sw.amountSpecifiedRemaining > 0

C25_FlagIsNumericEquality ==
  StepDone => (step.hasReachedTarget <=> step.sqrtPriceNext = step.sqrtPriceTarget)

RecoveryInputs ==
  /\ StepDone
  /\ step.exactIn
  /\ RemainingLessFee < EstimateToTarget
  /\ SolvedSqrtPrice = step.sqrtPriceCurrent
  /\ step.amountRemaining # 0

\* the price of the higher precision the recovery derives the amount out from
RecoverySqrtPriceBigDec ==
  GetNextSqrtPriceFromAmount1InRoundingDownBigDec(
    BigDecFromSDKDec(step.sqrtPriceCurrent), BigDecFromSDKDec(step.liquidity),
    BigDecFromSDKDec(step.amountRemaining))

\* C27: in the recovery of the step for a given amount in, the returned
\* sqrtPriceNext is sqrtPriceCurrent; the price of the higher precision only
\* gives amountZeroOut, truncated; the whole remaining amount is charged as
\* amountOneIn.
C27_RecoveryLeavesPrice ==
  RecoveryInputs =>
    /\ step.precisionLoss
    /\ step.sqrtPriceNext = step.sqrtPriceCurrent
    /\ step.amountOneIn = step.amountRemaining
    /\ step.amountOneIn + step.spreadRewardChargeTotal = step.amountRemaining
    /\ step.amountZeroOut =
         SDKDec(CalcAmount0DeltaBigDec(BigDecFromSDKDec(step.liquidity),
                  RecoverySqrtPriceBigDec, BigDecFromSDKDec(step.sqrtPriceCurrent), FALSE))

\* a recovery whose price of the higher precision is a whole ULP or more
\* above the current price, and the returned price is the current one
C27_Witness ==
  /\ RecoveryInputs
  /\ SDKDec(RecoverySqrtPriceBigDec) > step.sqrtPriceCurrent
  /\ step.sqrtPriceNext = step.sqrtPriceCurrent
  /\ step.amountZeroOut > 0

\* C28: a step over a bucket without liquidity is free and jumps to the
\* target: for liquidity 0 and any remaining amount, both step functions
\* return sqrtPriceNext = sqrtPriceTarget, no amount in, no amount out and
\* no spread charge.
C28_ZeroLiquidityStepIsFree ==
  (StepDone /\ step.liquidity = 0) =>
    /\ step.sqrtPriceNext = step.sqrtPriceTarget
    /\ step.amountOneIn = 0
    /\ step.amountZeroOut = 0
    /\ step.spreadRewardChargeTotal = 0

\* a step for a given amount out over a gap: the price moves to the target
\* and nothing is swapped
C28_Witness ==
  /\ StepDone
  /\ ~step.exactIn
  /\ step.liquidity = 0
  /\ step.amountRemaining > 0
  /\ step.sqrtPriceCurrent < step.sqrtPriceTarget
  /\ step.sqrtPriceNext = step.sqrtPriceTarget
  /\ step.amountZeroOut = 0

OutOfLiquidity ==
  /\ InSwap
  /\ sw.amountSpecifiedRemaining > 0
  /\ sw.sqrtPrice # sw.sqrtPriceLimit
  /\ sw.liquidity = 0
  /\ IteratorTick(InitializeNextTickIterator(TickKeys(sw.before.ticks), sw.tick)) = NoTick

HarnessSwapReturned == bank.pc \in {"position", "failed"} /\ sw.pc = "returned"

====
